---- MODULE Spec2Model ----
(***************************************************************************)
(* scaffold-nuxt-4: the additive Nuxt 4 scaffolder of src/scaffold.mjs.    *)
(*                                                                         *)
(* One run of the script is a process p that walks through the sections of *)
(* the source top to bottom (OPTIONS, LOCK, NUXT DETECTION, TEMPLATE       *)
(* SOURCE DECISION, GATHER FILES, the classification loop, deterministic   *)
(* ordering, OUTPUT, CLEANUP).  The filesystem (target directory, lock     *)
(* file, temporary clone directories) is shared by the runs.               *)
(*                                                                         *)
(* Paths are sequences of tokens: a name, the separator "/" or a backslash.*)
(* The platform is POSIX (path.sep = "/"), where a backslash is an         *)
(* ordinary character of a file name.                                      *)
(***************************************************************************)
EXTENDS Naturals, Integers, Sequences, FiniteSets, TLC

\* ------------------------------------------------------------------ bounds
\* The largest number of files of a template tree.
MaxFiles == 2

\* ---------------------------------------------------------- exit codes
EXIT_OK == 0
EXIT_USAGE_ERROR == 1
EXIT_TEMPLATE_EMPTY == 2
EXIT_FILE_ERRORS == 3

\* ------------------------------------------------------------------ paths
SL == "/"
BS == "\\"

\* rel.replace(/\\/g, '/')
Normalize(raw) == [i \in 1..Len(raw) |-> IF raw[i] = BS THEN SL ELSE raw[i]]

\* The position of the last "/" of a path, 0 when it has none.
LastSlash(rel) ==
    LET S == {i \in 1..Len(rel) : rel[i] = SL}
    IN  IF S = {} THEN 0 ELSE CHOOSE i \in S : \A j \in S : j <= i

\* path.basename(rel) on POSIX: what follows the last "/".
Basename(rel) == SubSeq(rel, LastSlash(rel) + 1, Len(rel))

\* s.startsWith(pre)
StartsWith(s, pre) == Len(s) >= Len(pre) /\ SubSeq(s, 1, Len(pre)) = pre

\* ------------------------------------------------------------ classifiers
isContentFile(rel) ==
    \/ rel = <<"content.config.ts">>
    \/ StartsWith(rel, <<"content", SL>>)
    \/ StartsWith(rel, <<"content", BS>>)

isTailwindFile(rel) ==
    \/ rel = <<"tailwind.config.ts">>
    \/ rel = <<"tailwind.config.js">>
    \/ rel = <<"tailwind.config.cjs">>

isInfoFile(rel) == Basename(rel) = <<"INFO.md">>

LOCK_NAME == ".scaffold-nuxt-4.lock"

ALWAYS_EXCLUDE ==
    { <<"package.json">>, <<"package-lock.json">>, <<"pnpm-lock.yaml">>,
      <<"yarn.lock">>, <<"bun.lockb">>, <<"scaffold.mjs">>, <<"_scaffold.mjs">>,
      <<"a.txt">>, <<LOCK_NAME>>, <<".DS_Store">>, <<"Thumbs.db">> }

DOC_EXCLUDE ==
    { <<"README.md">>, <<"LICENSE">>, <<"LICENSE.txt">>, <<"CHANGELOG.md">>,
      <<"CHANGES.md">> }

\* RuleOf without the existence rule: a file that exists is added again.
RuleOfNoSkip(rel, inclDocs, clean, effContent, effTailwind, exists) ==
    IF Basename(rel) \in ALWAYS_EXCLUDE THEN "always"
    ELSE IF ~inclDocs /\ Basename(rel) \in DOC_EXCLUDE THEN "docs"
    ELSE IF clean /\ isInfoFile(rel) THEN "info"
    ELSE IF isContentFile(rel) /\ ~effContent THEN "content"
    ELSE IF isTailwindFile(rel) /\ ~effTailwind THEN "tailwind"
    ELSE "add"

\* RuleOf with the existence rule applied to gated files only while their
\* feature was not forced by an enabled gate: an enabled feature overwrites.
RuleOfFeatureOverwrites(rel, inclDocs, clean, effContent, effTailwind, exists) ==
    IF Basename(rel) \in ALWAYS_EXCLUDE THEN "always"
    ELSE IF ~inclDocs /\ Basename(rel) \in DOC_EXCLUDE THEN "docs"
    ELSE IF clean /\ isInfoFile(rel) THEN "info"
    ELSE IF isContentFile(rel) /\ ~effContent THEN "content"
    ELSE IF isTailwindFile(rel) /\ ~effTailwind THEN "tailwind"
    ELSE IF exists /\ ~(isContentFile(rel) \/ isTailwindFile(rel)) THEN "exists"
    ELSE "add"

\* RuleOf with the feature gates tried before the basename rules.
RuleOfGatesFirst(rel, inclDocs, clean, effContent, effTailwind, exists) ==
    IF isContentFile(rel) /\ ~effContent THEN "content"
    ELSE IF isTailwindFile(rel) /\ ~effTailwind THEN "tailwind"
    ELSE IF Basename(rel) \in ALWAYS_EXCLUDE THEN "always"
    ELSE IF ~inclDocs /\ Basename(rel) \in DOC_EXCLUDE THEN "docs"
    ELSE IF clean /\ isInfoFile(rel) THEN "info"
    ELSE IF exists THEN "exists"
    ELSE "add"

\* The rule chain of the classification loop: the first rule whose condition
\* holds decides the file.  exists is fs.existsSync(dest).
RuleOf(rel, inclDocs, clean, effContent, effTailwind, exists) ==
    IF Basename(rel) \in ALWAYS_EXCLUDE THEN "always"
    ELSE IF ~inclDocs /\ Basename(rel) \in DOC_EXCLUDE THEN "docs"
    ELSE IF clean /\ isInfoFile(rel) THEN "info"
    ELSE IF isContentFile(rel) /\ ~effContent THEN "content"
    ELSE IF isTailwindFile(rel) /\ ~effTailwind THEN "tailwind"
    ELSE IF exists THEN "exists"
    ELSE "add"

\* The object pushed on actions by each branch of the loop.
ActionOf(rel, rule) ==
    CASE rule = "always"   -> [rel |-> rel, action |-> "exclude-always",  reason |-> "utility"]
      [] rule = "docs"     -> [rel |-> rel, action |-> "exclude-docs",    reason |-> "docs"]
      [] rule = "info"     -> [rel |-> rel, action |-> "exclude-info",    reason |-> "clean"]
      [] rule = "content"  -> [rel |-> rel, action |-> "exclude-feature", reason |-> "content-off"]
      [] rule = "tailwind" -> [rel |-> rel, action |-> "exclude-feature", reason |-> "tailwind-off"]
      [] rule = "exists"   -> [rel |-> rel, action |-> "skip-exists",     reason |-> "none"]
      [] OTHER             -> [rel |-> rel, action |-> "add",             reason |-> "none"]

\* The object pushed on excluded by each excluding branch of the loop.
ExcludedOf(rel, rule) ==
    CASE rule = "always"   -> [file |-> rel, reason |-> "utility"]
      [] rule = "docs"     -> [file |-> rel, reason |-> "docs"]
      [] rule = "info"     -> [file |-> rel, reason |-> "info-clean"]
      [] rule = "content"  -> [file |-> rel, reason |-> "content-disabled"]
      [] OTHER             -> [file |-> rel, reason |-> "tailwind-disabled"]

ExcludeRules == {"always", "docs", "info", "content", "tailwind"}

\* ------------------------------------------------------- the file universes
\* Raw relative paths a template root may hold, as walk() reports them.
TplUniverse ==
    { <<"content", SL, "index.md">>,
      <<"content", BS, "index.md">>,
      <<"content", SL, "package.json">>,
      <<"content", SL, "README.md">>,
      <<"content", SL, "INFO.md">>,
      <<"tailwind.config.ts">>,
      <<"app.vue">> }

\* Files a template repository may hold at its top level, beside templates/.
RootUniverse == { <<"README.md">>, <<"app.vue">> }

\* ------------------------------------------------------------- orderings
\* String.prototype.localeCompare on the normalized paths of the universes:
\* letters compare without regard to case first.
LocaleOrder ==
    << <<"app.vue">>,
       <<"content", SL, "index.md">>,
       <<"content", SL, "INFO.md">>,
       <<"content", SL, "package.json">>,
       <<"content", SL, "README.md">>,
       <<"package.json">>,
       <<"README.md">>,
       <<"tailwind.config.ts">> >>

\* The default Array.prototype.sort comparison (UTF-16 code units): capitals
\* come before small letters.
CodeUnitOrder ==
    << <<"README.md">>,
       <<"app.vue">>,
       <<"content", SL, "INFO.md">>,
       <<"content", SL, "README.md">>,
       <<"content", SL, "index.md">>,
       <<"content", SL, "package.json">>,
       <<"package.json">>,
       <<"tailwind.config.ts">> >>

Rank(order, rel) == CHOOSE i \in 1..Len(order) : order[i] = rel

\* Array.prototype.sort is stable: an element goes behind every element that
\* compares smaller and behind the equal ones that came before it.
\* keys[i] is what the comparison reads of s[i].
SortBy(s, order, keys) ==
    LET n == Len(s)
        pos(i) == 1 + Cardinality({j \in 1..n :
                        \/ Rank(order, keys[j]) < Rank(order, keys[i])
                        \/ Rank(order, keys[j]) = Rank(order, keys[i]) /\ j < i})
    IN  [q \in 1..n |-> s[CHOOSE i \in 1..n : pos(i) = q]]

KeyRel(s) == [i \in 1..Len(s) |-> s[i].rel]
KeyFile(s) == [i \in 1..Len(s) |-> s[i].file]
KeySelf(s) == s

\* The elements of a sequence.
Range(s) == {s[i] : i \in 1..Len(s)}

\* All orders in which the elements of a finite set can be listed.
RECURSIVE Orders(_)
Orders(S) ==
    IF S = {} THEN {<<>>}
    ELSE UNION {{<<x>> \o t : t \in Orders(S \ {x})} : x \in S}

\* ------------------------------------------------------------------ inputs
\* The long options the model gives on the command line (the short forms -h,
\* -v and -c count as their long forms, as wantFlag does).
FlagNames ==
    { "all", "with-content", "without-content", "with-tailwind",
      "without-tailwind", "clean", "include-docs", "dry-run", "list", "json",
      "help", "version" }

\* REPO_URL as its leading token and the rest.
DEFAULT_REPO_URL == <<"https://", "gitlab.com/thaikolja/scaffold-nuxt-4.git">>
Urls ==
    { DEFAULT_REPO_URL,
      <<"https://", "example.org/tpl.git">>,
      <<"git@", "example.org:tpl.git">>,
      <<"ssh://", "git@example.org/tpl.git">>,
      <<"deploy@", "example.org:tpl.git">>,
      <<"/", "abs/tpl">> }

\* /^(?:git@|https?:\/\/)/i.test(url)
isRemote(url) == url[1] \in {"git@", "http://", "https://"}

\* A source tree: the files at its top level and the files under its
\* templates/ subdirectory (DEFAULT_TEMPLATE_DIR), which exists when it holds
\* a file.
NoTree == [root |-> {}, tpl |-> {}]
Trees ==
    { [root |-> r, tpl |-> t] : r \in SUBSET RootUniverse, t \in SUBSET TplUniverse }
SmallTrees == { t \in Trees : Cardinality(t.root) + Cardinality(t.tpl) <= MaxFiles }

\* What the path of a local source is on the filesystem.
LocalKinds == {"dir", "file", "missing"}

\* The dependency keys the detection reads, and the values a manifest may
\* give them: no entry, a version string, an empty string.
DepKeys == {"@nuxt/content", "tailwindcss"}
DepValues == {"absent", "version", "empty"}
NoDeps == [k \in DepKeys |-> "absent"]

\* The processes: a run's number is its process.pid.
Procs == {1, 2}

VARIABLES
    \* the command line and the environment of the runs
    longArgs, positional, fast, repoUrl, embedded, gitOk, repo,
    \* the filesystem
    targetKind, targetFiles, pkgJson, nuxtConfig, lockFile, tmpDirs, localKind,
    \* each run's variables, by process
    pc, lockAcquired, detectedContent, detectedTailwind, effectiveContent,
    effectiveTailwind, tempRoot, optimized, cloneDir, templateRoot, usedEmbedded,
    files, idx, actions, added, skipped, excluded, errors, exitCode,
    \* history: the target's files before the runs, the paths each run copied
    \* to, the clone attempts each run made
    preTarget, written, attempts,
    \* the revision of src/unnamed/part_000 (lines 635-1353): the run that
    \* created the lock file now in the target (0: none of the runs), and by
    \* process the pid read from the lock file (0: null), the cleaning flag,
    \* whether the signal and exit handlers are registered, whether a
    \* termination signal was delivered, and cloneMode
    lockInode, lockPid, cleaning, handlers, signalled, cloneMode

inputVars == <<longArgs, positional, fast, repoUrl, embedded, gitOk, repo, localKind,
               targetKind, pkgJson, nuxtConfig, preTarget>>
lockVars == <<lockFile, lockAcquired>>
detectVars == <<detectedContent, detectedTailwind, effectiveContent, effectiveTailwind>>
sourceVars == <<tempRoot, optimized, cloneDir, templateRoot, usedEmbedded, tmpDirs, attempts>>
loopVars == <<files, idx, actions, added, skipped, excluded, errors, targetFiles, written>>
exitVars == <<pc, exitCode>>
rev2Vars == <<lockInode, lockPid, cleaning, handlers, signalled, cloneMode>>
vars == <<inputVars, lockVars, detectVars, sourceVars, loopVars, exitVars, rev2Vars>>

want(name) == name \in longArgs
forceAll == want("all")
overrideWithContent == want("with-content")
overrideWithoutContent == want("without-content")
overrideWithTailwind == want("with-tailwind")
overrideWithoutTailwind == want("without-tailwind")
cleanInfo == want("clean")
includeDocs == want("include-docs")
dryRun == want("dry-run")
listOnly == want("list")
jsonOutput == want("json")
wantHelp == want("help")
wantVersion == want("version")
USE_OPTIMIZED == fast

\* ------------------------------------------------------ the initial states
\* A run that has not started, or never starts.
InitRun(started) ==
    /\ pc = [p \in Procs |-> IF p \in started THEN "start" ELSE "off"]
    /\ lockAcquired = [p \in Procs |-> FALSE]
    /\ detectedContent = [p \in Procs |-> FALSE]
    /\ detectedTailwind = [p \in Procs |-> FALSE]
    /\ effectiveContent = [p \in Procs |-> FALSE]
    /\ effectiveTailwind = [p \in Procs |-> FALSE]
    /\ tempRoot = [p \in Procs |-> "tdz"]
    /\ optimized = [p \in Procs |-> FALSE]
    /\ cloneDir = [p \in Procs |-> NoTree]
    /\ templateRoot = [p \in Procs |-> [kind |-> "tdz", files |-> {}]]
    /\ usedEmbedded = [p \in Procs |-> FALSE]
    /\ files = [p \in Procs |-> <<>>]
    /\ idx = [p \in Procs |-> 0]
    /\ actions = [p \in Procs |-> <<>>]
    /\ added = [p \in Procs |-> <<>>]
    /\ skipped = [p \in Procs |-> <<>>]
    /\ excluded = [p \in Procs |-> <<>>]
    /\ errors = [p \in Procs |-> <<>>]
    /\ exitCode = [p \in Procs |-> -1]
    /\ written = [p \in Procs |-> {}]
    /\ attempts = [p \in Procs |-> <<>>]
    /\ tmpDirs = {}
    /\ lockInode = 0
    /\ lockPid = [p \in Procs |-> 0]
    /\ cleaning = [p \in Procs |-> FALSE]
    /\ handlers = [p \in Procs |-> FALSE]
    /\ signalled = [p \in Procs |-> FALSE]
    /\ cloneMode = [p \in Procs |-> "null"]

\* An eligible target: a directory with a parsable package.json and a
\* nuxt.config.*.
GoodPkg == [state |-> "ok", dependencies |-> NoDeps, devDependencies |-> NoDeps]

\* ------------------------------------------------------------------- exits
\* process.exit(code), with nothing cleaned up.
Exit(p, code) ==
    /\ pc' = [pc EXCEPT ![p] = "exit"]
    /\ exitCode' = [exitCode EXCEPT ![p] = code]

\* cleanupAndExit(code), called when tempRoot holds tr.  Before the statement
\* `let tempRoot = null` has run the binding is uninitialized and reading it
\* throws a ReferenceError: the exception is uncaught, nothing is removed and
\* node exits with status 1.
cleanupAndExit(p, code, tr) ==
    IF tr = "tdz"
    THEN /\ Exit(p, 1)
         /\ UNCHANGED <<tmpDirs, lockFile>>
    ELSE /\ tmpDirs' = tmpDirs \ {<<p, tr>>}
         /\ lockFile' = IF lockAcquired[p] THEN 0 ELSE lockFile
         /\ Exit(p, code)

\* Options without the mutual exclusivity checks.
OptionsNoExclusivity(p) ==
    /\ pc[p] = "start"
    /\ IF positional > 1 THEN Exit(p, EXIT_USAGE_ERROR)
       ELSE IF wantVersion THEN Exit(p, EXIT_OK)
       ELSE IF wantHelp THEN Exit(p, EXIT_OK)
       ELSE IF targetKind # "dir" THEN Exit(p, EXIT_USAGE_ERROR)
       ELSE /\ pc' = [pc EXCEPT ![p] = "lock"]
            /\ UNCHANGED exitCode
    /\ UNCHANGED <<inputVars, rev2Vars, lockVars, detectVars, sourceVars, loopVars>>

\* ----------------------------------------------------------------- OPTIONS
\* Argument parsing, the option checks and the target path check.
Options(p) ==
    /\ pc[p] = "start"
    /\ IF positional > 1 THEN Exit(p, EXIT_USAGE_ERROR)
       ELSE IF wantVersion THEN Exit(p, EXIT_OK)
       ELSE IF wantHelp THEN Exit(p, EXIT_OK)
       ELSE IF overrideWithContent /\ overrideWithoutContent THEN Exit(p, EXIT_USAGE_ERROR)
       ELSE IF overrideWithTailwind /\ overrideWithoutTailwind THEN Exit(p, EXIT_USAGE_ERROR)
       ELSE IF targetKind # "dir" THEN Exit(p, EXIT_USAGE_ERROR)
       ELSE /\ pc' = [pc EXCEPT ![p] = "lock"]
            /\ UNCHANGED exitCode
    /\ UNCHANGED <<inputVars, rev2Vars, lockVars, detectVars, sourceVars, loopVars>>

\* Lock opening the lock file with 'w': an existing lock file is truncated.
LockOverwrites(p) ==
    /\ pc[p] = "lock"
    /\ lockFile' = p
    /\ lockAcquired' = [lockAcquired EXCEPT ![p] = TRUE]
    /\ pc' = [pc EXCEPT ![p] = "detect"]
    /\ UNCHANGED exitCode
    /\ UNCHANGED <<inputVars, rev2Vars, detectVars, sourceVars, loopVars>>

\* -------------------------------------------------------------------- LOCK
\* fs.openSync(lockPath, 'wx') creates the lock file or fails when it exists.
Lock(p) ==
    /\ pc[p] = "lock"
    /\ IF lockFile = 0
       THEN /\ lockFile' = p
            /\ lockAcquired' = [lockAcquired EXCEPT ![p] = TRUE]
            /\ pc' = [pc EXCEPT ![p] = "detect"]
            /\ UNCHANGED exitCode
       ELSE /\ Exit(p, EXIT_USAGE_ERROR)
            /\ UNCHANGED lockVars
    /\ UNCHANGED <<inputVars, rev2Vars, detectVars, sourceVars, loopVars>>

\* ---------------------------------------------------------- NUXT DETECTION
\* {...(pkg.dependencies || {}), ...(pkg.devDependencies || {})}[k]: an entry
\* of devDependencies replaces the one of dependencies.
deps(k) ==
    IF pkgJson.devDependencies[k] # "absent"
    THEN pkgJson.devDependencies[k]
    ELSE pkgJson.dependencies[k]

\* !!deps[k]: a version string is truthy, no entry and the empty string are not.
Detected(k) == deps(k) = "version"

\* EffectiveOf with --without-X ignored: all || with || detected.
EffectiveOfNoWithout(all, with, without, detected) == all \/ with \/ detected

\* EffectiveOf with --without-X tried first.
EffectiveOfWithoutFirst(all, with, without, detected) ==
    IF without THEN FALSE
    ELSE IF all THEN TRUE
    ELSE IF with THEN TRUE
    ELSE detected

\* effectiveContent / effectiveTailwind
EffectiveOf(all, with, without, detected) ==
    IF all THEN TRUE
    ELSE IF with THEN TRUE
    ELSE IF without THEN FALSE
    ELSE detected

NuxtDetection(p) ==
    /\ pc[p] = "detect"
    /\ IF pkgJson.state # "ok" \/ ~nuxtConfig
       THEN /\ cleanupAndExit(p, EXIT_USAGE_ERROR, tempRoot[p])
            /\ UNCHANGED detectVars
       ELSE /\ detectedContent' = [detectedContent EXCEPT ![p] = Detected("@nuxt/content")]
            /\ detectedTailwind' = [detectedTailwind EXCEPT ![p] = Detected("tailwindcss")]
            /\ effectiveContent' = [effectiveContent EXCEPT ![p] =
                   EffectiveOf(forceAll, overrideWithContent, overrideWithoutContent,
                               Detected("@nuxt/content"))]
            /\ effectiveTailwind' = [effectiveTailwind EXCEPT ![p] =
                   EffectiveOf(forceAll, overrideWithTailwind, overrideWithoutTailwind,
                               Detected("tailwindcss"))]
            /\ pc' = [pc EXCEPT ![p] = "source"]
            /\ UNCHANGED <<exitCode, tmpDirs, lockFile>>
    /\ UNCHANGED <<inputVars, rev2Vars, lockAcquired, loopVars>>
    /\ UNCHANGED <<tempRoot, optimized, cloneDir, templateRoot, usedEmbedded, attempts>>

\* ------------------------------------------------ TEMPLATE SOURCE DECISION
\* The narrowing of the template root: the templates/ subdirectory of the
\* directory when it has one, else the directory itself.
Narrow(tree) ==
    IF tree.tpl # {}
    THEN [kind |-> "subdir", files |-> tree.tpl]
    ELSE [kind |-> "root", files |-> tree.root]

\* What the local path REPO_URL names holds: the source tree when it is a
\* directory; a regular file has no entries (fs.existsSync alone is tested,
\* path.join(file, 'templates') does not exist and walk() gets ENOTDIR).
LocalTree == IF localKind = "dir" THEN repo ELSE NoTree

\* The self-target guard: the local path may be the target directory itself.
SelfTarget == IF localKind = "dir" /\ repo.tpl = {} THEN BOOLEAN ELSE {FALSE}

\* The embedded template, the local path or the decision to clone; for the
\* first two also the narrowing and the self-target guard.
SourceDecision(p) ==
    /\ pc[p] = "source"
    /\ optimized' = [optimized EXCEPT ![p] = USE_OPTIMIZED]
    /\ tempRoot' = [tempRoot EXCEPT ![p] = "null"]
    /\ IF embedded /\ repoUrl = DEFAULT_REPO_URL
       THEN /\ templateRoot' = [templateRoot EXCEPT ![p] =
                                   [kind |-> "embedded", files |-> repo.tpl]]
            /\ usedEmbedded' = [usedEmbedded EXCEPT ![p] = TRUE]
            /\ pc' = [pc EXCEPT ![p] = "gather"]
            /\ UNCHANGED <<cloneDir, exitCode, tmpDirs, lockFile>>
       ELSE IF ~isRemote(repoUrl)
       THEN IF localKind = "missing"
            THEN /\ cleanupAndExit(p, EXIT_USAGE_ERROR, "null")
                 /\ templateRoot' = [templateRoot EXCEPT ![p] = [kind |-> "null", files |-> {}]]
                 /\ UNCHANGED <<cloneDir, usedEmbedded>>
            ELSE /\ cloneDir' = [cloneDir EXCEPT ![p] = LocalTree]
                 /\ templateRoot' = [templateRoot EXCEPT ![p] = Narrow(LocalTree)]
                 /\ UNCHANGED usedEmbedded
                 /\ \E same \in SelfTarget :
                        IF same
                        THEN cleanupAndExit(p, EXIT_USAGE_ERROR, "null")
                        ELSE /\ pc' = [pc EXCEPT ![p] = "gather"]
                             /\ UNCHANGED <<exitCode, tmpDirs, lockFile>>
       ELSE IF ~gitOk
            THEN /\ cleanupAndExit(p, EXIT_USAGE_ERROR, "null")
                 /\ templateRoot' = [templateRoot EXCEPT ![p] = [kind |-> "null", files |-> {}]]
                 /\ UNCHANGED <<cloneDir, usedEmbedded>>
            ELSE /\ pc' = [pc EXCEPT ![p] = "clone"]
                 /\ templateRoot' = [templateRoot EXCEPT ![p] = [kind |-> "null", files |-> {}]]
                 /\ UNCHANGED <<cloneDir, usedEmbedded, exitCode, tmpDirs, lockFile>>
    /\ UNCHANGED <<inputVars, rev2Vars, lockAcquired, detectVars, loopVars, attempts>>

\* attemptClone(optimized), its first statement: fs.mkdtempSync.
AttemptClone(p) ==
    /\ pc[p] = "clone"
    /\ LET dir == IF attempts[p] = <<>> THEN "tmp1" ELSE "tmp2" IN
         /\ tempRoot' = [tempRoot EXCEPT ![p] = dir]
         /\ tmpDirs' = tmpDirs \cup {<<p, dir>>}
    /\ attempts' = [attempts EXCEPT ![p] =
                       Append(@, IF optimized[p] THEN "optimized" ELSE "full")]
    /\ pc' = [pc EXCEPT ![p] = "git"]
    /\ UNCHANGED <<inputVars, rev2Vars, lockVars, detectVars, loopVars, exitCode>>
    /\ UNCHANGED <<optimized, cloneDir, templateRoot, usedEmbedded>>

\* The working trees a clone may leave: the full clone checks out the
\* repository; the sparse, blob-filtered clone checks out the repository, or
\* only its top-level files (what `git clone --sparse` leaves when the
\* sparse-checkout command that follows fails, which the script ignores or
\* its pattern selects nothing more), or nothing.
CloneTrees(opt) ==
    IF opt
    THEN {repo, [root |-> repo.root, tpl |-> {}], NoTree}
    ELSE {repo}

\* IsEmptyTree counting the .git directory: no clone is ever empty.
IsEmptyTreeCountsGit(tree) == FALSE

\* readdirSync(cloneDir).filter(x => x !== '.git').length === 0
IsEmptyTree(tree) == tree.root = {} /\ tree.tpl = {}

\* GitClone without the fs.rmSync of the fallback: the directory of the
\* empty optimized clone is left behind when the full clone is made.
GitCloneKeepsFirst(p) ==
    /\ pc[p] = "git"
    /\ \/ /\ cleanupAndExit(p, EXIT_USAGE_ERROR, tempRoot[p])
          /\ UNCHANGED <<optimized, cloneDir, templateRoot>>
       \/ \E tree \in CloneTrees(optimized[p]) :
            IF optimized[p] /\ IsEmptyTree(tree)
            THEN /\ optimized' = [optimized EXCEPT ![p] = FALSE]
                 /\ cloneDir' = [cloneDir EXCEPT ![p] = tree]
                 /\ pc' = [pc EXCEPT ![p] = "clone"]
                 /\ UNCHANGED <<templateRoot, exitCode, tmpDirs, lockFile>>
            ELSE /\ cloneDir' = [cloneDir EXCEPT ![p] = tree]
                 /\ templateRoot' = [templateRoot EXCEPT ![p] = Narrow(tree)]
                 /\ pc' = [pc EXCEPT ![p] = "gather"]
                 /\ UNCHANGED <<optimized, exitCode, tmpDirs, lockFile>>
    /\ UNCHANGED <<inputVars, rev2Vars, lockAcquired, detectVars, loopVars>>
    /\ UNCHANGED <<tempRoot, usedEmbedded, attempts>>

\* attemptClone(optimized), the git commands, and what the caller does with
\* the result: the clone fails, or the optimized clone is empty and is
\* discarded for a full one, or the clone is narrowed to the template root.
GitClone(p) ==
    /\ pc[p] = "git"
    /\ \/ /\ cleanupAndExit(p, EXIT_USAGE_ERROR, tempRoot[p])
          /\ UNCHANGED <<optimized, cloneDir, templateRoot>>
       \/ \E tree \in CloneTrees(optimized[p]) :
            IF optimized[p] /\ IsEmptyTree(tree)
            THEN /\ tmpDirs' = tmpDirs \ {<<p, tempRoot[p]>>}
                 /\ optimized' = [optimized EXCEPT ![p] = FALSE]
                 /\ cloneDir' = [cloneDir EXCEPT ![p] = tree]
                 /\ pc' = [pc EXCEPT ![p] = "clone"]
                 /\ UNCHANGED <<templateRoot, exitCode, lockFile>>
            ELSE /\ cloneDir' = [cloneDir EXCEPT ![p] = tree]
                 /\ templateRoot' = [templateRoot EXCEPT ![p] = Narrow(tree)]
                 /\ pc' = [pc EXCEPT ![p] = "gather"]
                 /\ UNCHANGED <<optimized, exitCode, tmpDirs, lockFile>>
    /\ UNCHANGED <<inputVars, rev2Vars, lockAcquired, detectVars, loopVars>>
    /\ UNCHANGED <<tempRoot, usedEmbedded, attempts>>

\* ------------------------------------------------------------ GATHER FILES
\* walk(dir) passes over the entries named .git and node_modules.
Skipped(raw) ==
    \E i \in 1..Len(raw) :
        /\ raw[i] \in {".git", "node_modules"}
        /\ (i = 1 \/ raw[i - 1] = SL)
        /\ (i = Len(raw) \/ raw[i + 1] = SL)

\* The files walk(dir) returns; the order is the one readdirSync lists the
\* directories in, which the script does not control.
walk(dirFiles) == Orders({f \in dirFiles : ~Skipped(f)})

GatherFiles(p) ==
    /\ pc[p] = "gather"
    /\ \E order \in walk(templateRoot[p].files) :
         /\ files' = [files EXCEPT ![p] = order]
         /\ IF Len(order) = 0
            THEN /\ cleanupAndExit(p, EXIT_TEMPLATE_EMPTY, tempRoot[p])
                 /\ UNCHANGED idx
            ELSE /\ idx' = [idx EXCEPT ![p] = 1]
                 /\ pc' = [pc EXCEPT ![p] = "loop"]
                 /\ UNCHANGED <<exitCode, tmpDirs, lockFile>>
    /\ UNCHANGED <<inputVars, rev2Vars, lockAcquired, detectVars>>
    /\ UNCHANGED <<tempRoot, optimized, cloneDir, templateRoot, usedEmbedded, attempts>>
    /\ UNCHANGED <<actions, added, skipped, excluded, errors, targetFiles, written>>

\* ------------------------------------------------- the classification loop
\* fs.existsSync(path.join(targetRoot, rel)): a file of the target, or a
\* directory on the way to one.
Exists(fsFiles, rel) ==
    \/ rel \in fsFiles
    \/ \E f \in fsFiles : StartsWith(f, Append(rel, SL))

\* ClassifyFile without the try/catch around the copy: the first copy that
\* throws ends the loop.
ClassifyFileAborts(p) ==
    /\ pc[p] = "loop"
    /\ LET relRaw == files[p][idx[p]]
           rel == Normalize(relRaw)
           rule == RuleOf(rel, includeDocs, cleanInfo, effectiveContent[p],
                          effectiveTailwind[p], Exists(targetFiles, rel))
           last == idx[p] = Len(files[p])
       IN  /\ actions' = [actions EXCEPT ![p] = Append(@, ActionOf(rel, rule))]
           /\ idx' = [idx EXCEPT ![p] = @ + 1]
           /\ IF rule \in ExcludeRules
              THEN /\ excluded' = [excluded EXCEPT ![p] = Append(@, ExcludedOf(rel, rule))]
                   /\ pc' = [pc EXCEPT ![p] = IF last THEN "sort" ELSE "loop"]
                   /\ UNCHANGED <<added, skipped, errors, targetFiles, written>>
              ELSE IF rule = "exists"
              THEN /\ skipped' = [skipped EXCEPT ![p] = Append(@, rel)]
                   /\ pc' = [pc EXCEPT ![p] = IF last THEN "sort" ELSE "loop"]
                   /\ UNCHANGED <<added, excluded, errors, targetFiles, written>>
              ELSE IF dryRun \/ listOnly
              THEN /\ added' = [added EXCEPT ![p] = Append(@, rel)]
                   /\ pc' = [pc EXCEPT ![p] = IF last THEN "sort" ELSE "loop"]
                   /\ UNCHANGED <<skipped, excluded, errors, targetFiles, written>>
              ELSE \/ /\ targetFiles' = targetFiles \cup {rel}
                      /\ written' = [written EXCEPT ![p] = @ \cup {rel}]
                      /\ added' = [added EXCEPT ![p] = Append(@, rel)]
                      /\ pc' = [pc EXCEPT ![p] = IF last THEN "sort" ELSE "loop"]
                      /\ UNCHANGED <<skipped, excluded, errors>>
                   \/ /\ errors' = [errors EXCEPT ![p] =
                                      Append(@, [file |-> rel, error |-> "copy failed"])]
                      /\ pc' = [pc EXCEPT ![p] = "sort"]
                      /\ UNCHANGED <<added, skipped, excluded, targetFiles, written>>
    /\ UNCHANGED <<inputVars, rev2Vars, lockVars, detectVars, sourceVars, files, exitCode>>

\* ClassifyFile with added.push(rel) ahead of the try block: a file whose
\* copy throws is in added and in errors.
ClassifyFileAddsFirst(p) ==
    /\ pc[p] = "loop"
    /\ LET relRaw == files[p][idx[p]]
           rel == Normalize(relRaw)
           rule == RuleOf(rel, includeDocs, cleanInfo, effectiveContent[p],
                          effectiveTailwind[p], Exists(targetFiles, rel))
       IN  /\ actions' = [actions EXCEPT ![p] = Append(@, ActionOf(rel, rule))]
           /\ IF rule \in ExcludeRules
              THEN /\ excluded' = [excluded EXCEPT ![p] = Append(@, ExcludedOf(rel, rule))]
                   /\ UNCHANGED <<added, skipped, errors, targetFiles, written>>
              ELSE IF rule = "exists"
              THEN /\ skipped' = [skipped EXCEPT ![p] = Append(@, rel)]
                   /\ UNCHANGED <<added, excluded, errors, targetFiles, written>>
              ELSE IF dryRun \/ listOnly
              THEN /\ added' = [added EXCEPT ![p] = Append(@, rel)]
                   /\ UNCHANGED <<skipped, excluded, errors, targetFiles, written>>
              ELSE \/ \* ensureDir and fs.copyFileSync succeed
                      /\ targetFiles' = targetFiles \cup {rel}
                      /\ written' = [written EXCEPT ![p] = @ \cup {rel}]
                      /\ added' = [added EXCEPT ![p] = Append(@, rel)]
                      /\ UNCHANGED <<skipped, excluded, errors>>
                   \/ \* one of them throws: the error is recorded
                      /\ errors' = [errors EXCEPT ![p] =
                                      Append(@, [file |-> rel, error |-> "copy failed"])]
                      /\ added' = [added EXCEPT ![p] = Append(@, rel)]
                      /\ UNCHANGED <<skipped, excluded, targetFiles, written>>
    /\ idx' = [idx EXCEPT ![p] = @ + 1]
    /\ pc' = [pc EXCEPT ![p] = IF idx[p] = Len(files[p]) THEN "sort" ELSE "loop"]
    /\ UNCHANGED <<inputVars, rev2Vars, lockVars, detectVars, sourceVars, files, exitCode>>

\* One iteration of `for (const relRaw of files)`: the file is classified
\* and, when its action is add and the run is no simulation, copied.
ClassifyFile(p) ==
    /\ pc[p] = "loop"
    /\ LET relRaw == files[p][idx[p]]
           rel == Normalize(relRaw)
           rule == RuleOf(rel, includeDocs, cleanInfo, effectiveContent[p],
                          effectiveTailwind[p], Exists(targetFiles, rel))
       IN  /\ actions' = [actions EXCEPT ![p] = Append(@, ActionOf(rel, rule))]
           /\ IF rule \in ExcludeRules
              THEN /\ excluded' = [excluded EXCEPT ![p] = Append(@, ExcludedOf(rel, rule))]
                   /\ UNCHANGED <<added, skipped, errors, targetFiles, written>>
              ELSE IF rule = "exists"
              THEN /\ skipped' = [skipped EXCEPT ![p] = Append(@, rel)]
                   /\ UNCHANGED <<added, excluded, errors, targetFiles, written>>
              ELSE IF dryRun \/ listOnly
              THEN /\ added' = [added EXCEPT ![p] = Append(@, rel)]
                   /\ UNCHANGED <<skipped, excluded, errors, targetFiles, written>>
              ELSE \/ \* ensureDir and fs.copyFileSync succeed
                      /\ targetFiles' = targetFiles \cup {rel}
                      /\ written' = [written EXCEPT ![p] = @ \cup {rel}]
                      /\ added' = [added EXCEPT ![p] = Append(@, rel)]
                      /\ UNCHANGED <<skipped, excluded, errors>>
                   \/ \* one of them throws: the error is recorded
                      /\ errors' = [errors EXCEPT ![p] =
                                      Append(@, [file |-> rel, error |-> "copy failed"])]
                      /\ UNCHANGED <<added, skipped, excluded, targetFiles, written>>
    /\ idx' = [idx EXCEPT ![p] = @ + 1]
    /\ pc' = [pc EXCEPT ![p] = IF idx[p] = Len(files[p]) THEN "sort" ELSE "loop"]
    /\ UNCHANGED <<inputVars, rev2Vars, lockVars, detectVars, sourceVars, files, exitCode>>

\* ------------------------------------------------- deterministic ordering
SortResults(p) ==
    /\ pc[p] = "sort"
    /\ actions' = [actions EXCEPT ![p] = SortBy(@, LocaleOrder, KeyRel(@))]
    /\ added' = [added EXCEPT ![p] = SortBy(@, CodeUnitOrder, KeySelf(@))]
    /\ skipped' = [skipped EXCEPT ![p] = SortBy(@, CodeUnitOrder, KeySelf(@))]
    /\ excluded' = [excluded EXCEPT ![p] = SortBy(@, LocaleOrder, KeyFile(@))]
    /\ pc' = [pc EXCEPT ![p] = "output"]
    /\ UNCHANGED <<inputVars, rev2Vars, lockVars, detectVars, sourceVars, exitCode>>
    /\ UNCHANGED <<files, idx, errors, targetFiles, written>>

\* Output ending every run with status 0, whatever the errors list holds.
OutputIgnoresErrors(p) ==
    /\ pc[p] = "output"
    /\ cleanupAndExit(p, EXIT_OK, tempRoot[p])
    /\ UNCHANGED <<inputVars, rev2Vars, lockAcquired, detectVars, loopVars>>
    /\ UNCHANGED <<tempRoot, optimized, cloneDir, templateRoot, usedEmbedded, attempts>>

\* ------------------------------------------------------------------ OUTPUT
\* The list, the JSON document or the human summary, then cleanupAndExit.
Output(p) ==
    /\ pc[p] = "output"
    /\ IF listOnly /\ ~jsonOutput
       THEN cleanupAndExit(p, EXIT_OK, tempRoot[p])
       ELSE cleanupAndExit(p, IF Len(errors[p]) > 0 THEN EXIT_FILE_ERRORS ELSE EXIT_OK,
                           tempRoot[p])
    /\ UNCHANGED <<inputVars, rev2Vars, lockAcquired, detectVars, loopVars>>
    /\ UNCHANGED <<tempRoot, optimized, cloneDir, templateRoot, usedEmbedded, attempts>>

\* The mode the JSON document gives: `mode` of the payload.
JsonMode(p) ==
    IF usedEmbedded[p] THEN "embedded" ELSE IF USE_OPTIMIZED THEN "optimized" ELSE "full"

\* The mode the --list header prints.
ListMode(p) ==
    IF usedEmbedded[p] THEN "embedded" ELSE IF USE_OPTIMIZED THEN "optimized?" ELSE "full"

Next ==
    \E p \in Procs :
        \/ Options(p)
        \/ Lock(p)
        \/ NuxtDetection(p)
        \/ SourceDecision(p)
        \/ AttemptClone(p)
        \/ GitClone(p)
        \/ GatherFiles(p)
        \/ ClassifyFile(p)
        \/ SortResults(p)
        \/ Output(p)

\* -------------------------------------------------------- the initial states
AnyTarget(tree) == SUBSET {Normalize(f) : f \in tree.root \cup tree.tpl}
BareOrFullTarget(tree) == {{}, {Normalize(f) : f \in tree.root \cup tree.tpl}}
EmptyTarget(tree) == {{}}
TargetsOf(targets, tree) ==
    CASE targets = "any" -> AnyTarget(tree)
      [] targets = "bareOrFull" -> BareOrFullTarget(tree)
      [] targets = "empty" -> EmptyTarget(tree)

\* The initial states over given sets of inputs.  The target's files are
\* files at the paths the template's files would be copied to.
InitOf(started, flagSets, posTargets, pkgs, nuxtConfigs, sources, trees, locks, targets) ==
    /\ longArgs \in flagSets
    /\ \E pt \in posTargets : positional = pt[1] /\ targetKind = pt[2]
    /\ pkgJson \in pkgs
    /\ nuxtConfig \in nuxtConfigs
    /\ \E s \in sources :
         /\ repoUrl = s.url
         /\ embedded = s.embedded
         /\ gitOk = s.gitOk
         /\ localKind = s.localKind
         /\ fast = s.fast
    /\ repo \in trees
    /\ targetFiles \in TargetsOf(targets, repo)
    /\ preTarget = targetFiles
    /\ lockFile \in locks
    /\ InitRun(started)


\* Without a positional path the target is the working directory.
PosTargets ==
    { <<0, "dir">>, <<1, "dir">>, <<1, "missing">>, <<1, "file">>, <<2, "dir">> }

\* The script run from its package, with the templates beside it.
EmbeddedSource ==
    [url |-> DEFAULT_REPO_URL, embedded |-> TRUE, gitOk |-> TRUE, localKind |-> "dir",
     fast |-> FALSE]
\* Every source: what the local path is matters for the sources the script
\* reads as local paths, the clone mode and the embedded templates for those
\* it clones.
Sources ==
    { s \in [url : Urls, embedded : BOOLEAN, gitOk : BOOLEAN, localKind : LocalKinds,
             fast : BOOLEAN] :
        IF isRemote(s.url) THEN s.localKind = "dir" ELSE ~s.fast /\ ~s.embedded }

Manifests ==
    { [state |-> "ok", dependencies |-> d, devDependencies |-> v] :
        d \in [DepKeys -> DepValues], v \in [DepKeys -> DepValues] }
BadManifests ==
    { [state |-> st, dependencies |-> NoDeps, devDependencies |-> NoDeps] :
        st \in {"missing", "invalid"} }

StalePids == {99}

\* A template of two files, one behind each feature gate.
TwoGates ==
    [root |-> {}, tpl |-> { <<"content", SL, "index.md">>, <<"tailwind.config.ts">> }]

\* The flags the classification loop reads; --list acts in the loop as
\* --dry-run does and --json only in the output, so they vary in InitCli.
ClassifyFlags ==
    { "all", "with-content", "with-tailwind", "include-docs", "clean", "dry-run" }

OverrideFlags ==
    { "all", "with-content", "without-content", "with-tailwind", "without-tailwind" }

\* Every combination of the classification flags over every small template
\* and every target.
InitClassify ==
    InitOf({1}, SUBSET ClassifyFlags, {<<0, "dir">>}, {GoodPkg}, {TRUE},
           {EmbeddedSource}, {t \in SmallTrees : t.root = {}}, {0}, "any")

\* Every command line, over every target of one template.
InitCli ==
    InitOf({1}, SUBSET FlagNames, PosTargets, {GoodPkg}, {TRUE},
           {EmbeddedSource}, {TwoGates}, {0}, "bareOrFull")

\* Every target manifest, eligible or not, under every feature override.
InitTarget ==
    InitOf({1}, SUBSET OverrideFlags, {<<0, "dir">>}, Manifests \cup BadManifests,
           BOOLEAN, {EmbeddedSource}, {TwoGates}, {0}, "empty")

\* Every template source over every small source tree.
InitSource ==
    InitOf({1}, {{}, {"all"}}, {<<0, "dir">>}, {GoodPkg}, {TRUE}, Sources, SmallTrees,
           {0}, "empty")

Init == InitClassify \/ InitCli \/ InitTarget \/ InitSource

Spec == Init /\ [][Next]_vars

\* Two runs started on the same target, in every interleaving: the lock file
\* is absent or left behind by a process that is gone.
RemoteSources ==
    { [url |-> <<"https://", "example.org/tpl.git">>, embedded |-> FALSE,
       gitOk |-> TRUE, localKind |-> "dir", fast |-> f] : f \in BOOLEAN }
InitLock ==
    InitOf(Procs, {{}, {"dry-run"}, {"all"}}, {<<0, "dir">>}, {GoodPkg} \cup BadManifests,
           {TRUE}, {EmbeddedSource} \cup RemoteSources,
           {t \in SmallTrees : t.root = {} /\ t.tpl \subseteq TwoGates.tpl},
           {0} \cup StalePids, "any")

SpecLock == InitLock /\ [][Next]_vars

\* Two runs in succession: the script is started again, with the same
\* command line and environment, once its first run has ended.
StartSecond ==
    /\ pc[1] = "exit"
    /\ pc[2] = "off"
    /\ pc' = [pc EXCEPT ![2] = "start"]
    /\ UNCHANGED <<inputVars, rev2Vars, lockVars, detectVars, sourceVars, loopVars, exitCode>>

NextTwice == Next \/ StartSecond

InitTwice ==
    InitOf({1}, {{}, {"all"}, {"dry-run"}}, {<<0, "dir">>}, {GoodPkg}, {TRUE},
           {EmbeddedSource} \cup RemoteSources, SmallTrees, {0}, "bareOrFull")

SpecTwice == InitTwice /\ [][NextTwice]_vars

\* Runs that report: --json or --list, from every template source.
InitReport ==
    InitOf({1}, {{"json"}, {"list"}}, {<<0, "dir">>}, {GoodPkg}, {TRUE}, Sources,
           SmallTrees, {0}, "empty")

SpecReport == InitReport /\ [][Next]_vars

\* A template with one file for each of the rules utility, docs, content
\* gate and tailwind gate, and one with an INFO.md for the info rule.
FourRules ==
    [root |-> {},
     tpl |-> { <<"content", SL, "index.md">>, <<"tailwind.config.ts">>,
               <<"package.json">>, <<"README.md">> }]
InfoTree == [root |-> {}, tpl |-> { <<"content", SL, "INFO.md">>, <<"app.vue">> }]

\* Runs over these templates into an empty target without the feature
\* dependencies, with no flags or with --clean.
InitReasons ==
    InitOf({1}, {{}, {"clean"}}, {<<0, "dir">>}, {GoodPkg}, {TRUE},
           {EmbeddedSource} \cup RemoteSources, {FourRules, InfoTree}, {0}, "empty")

SpecReasons == InitReasons /\ [][Next]_vars

\* ----------------------------------------- the loop beside another writer
\* The existence test and the copy are two system calls: between them another
\* process can create files in the target.  The first half of an iteration
\* classifies the file and pushes its action; for a file to copy it stops
\* before the try block.
ClassifyCheck(p) ==
    /\ pc[p] = "loop"
    /\ LET rel == Normalize(files[p][idx[p]])
           rule == RuleOf(rel, includeDocs, cleanInfo, effectiveContent[p],
                          effectiveTailwind[p], Exists(targetFiles, rel))
       IN  IF rule = "add" /\ ~(dryRun \/ listOnly)
           THEN /\ actions' = [actions EXCEPT ![p] = Append(@, ActionOf(rel, rule))]
                /\ pc' = [pc EXCEPT ![p] = "copy"]
                /\ UNCHANGED <<inputVars, rev2Vars, lockVars, detectVars, sourceVars>>
                /\ UNCHANGED <<files, idx, added, skipped, excluded, errors>>
                /\ UNCHANGED <<targetFiles, written, exitCode>>
           ELSE ClassifyFile(p)

\* ensureDir(dest) and fs.copyFileSync(src, dest), called without
\* COPYFILE_EXCL: a destination that exists by now is overwritten.
CopyFile(p) ==
    /\ pc[p] = "copy"
    /\ LET rel == Normalize(files[p][idx[p]])
       IN  \/ /\ targetFiles' = targetFiles \cup {rel}
              /\ written' = [written EXCEPT ![p] = @ \cup {rel}]
              /\ added' = [added EXCEPT ![p] = Append(@, rel)]
              /\ UNCHANGED errors
           \/ /\ errors' = [errors EXCEPT ![p] =
                              Append(@, [file |-> rel, error |-> "copy failed"])]
              /\ UNCHANGED <<added, targetFiles, written>>
    /\ idx' = [idx EXCEPT ![p] = @ + 1]
    /\ pc' = [pc EXCEPT ![p] = IF idx[p] = Len(files[p]) THEN "sort" ELSE "loop"]
    /\ UNCHANGED <<inputVars, rev2Vars, lockVars, detectVars, sourceVars, exitCode>>
    /\ UNCHANGED <<files, actions, skipped, excluded>>

\* Another process (an editor, a package manager, a generator) creates a
\* file in the target while a run is in its loop.  What it creates earlier
\* is part of the target the run starts on.
OtherCreates ==
    /\ \E p \in Procs : pc[p] \in {"loop", "copy"}
    /\ \E raw \in repo.root \cup repo.tpl :
         /\ Normalize(raw) \notin targetFiles
         /\ targetFiles' = targetFiles \cup {Normalize(raw)}
    /\ UNCHANGED <<inputVars, rev2Vars, lockVars, detectVars, sourceVars, exitVars>>
    /\ UNCHANGED <<files, idx, actions, added, skipped, excluded, errors, written>>

NextRace ==
    \/ \E p \in Procs :
          \/ Options(p)
          \/ Lock(p)
          \/ NuxtDetection(p)
          \/ SourceDecision(p)
          \/ AttemptClone(p)
          \/ GitClone(p)
          \/ GatherFiles(p)
          \/ ClassifyCheck(p)
          \/ CopyFile(p)
          \/ SortResults(p)
          \/ Output(p)
    \/ OtherCreates

InitRace ==
    InitOf({1}, {{}, {"all"}, {"dry-run"}}, {<<0, "dir">>}, {GoodPkg}, {TRUE},
           {EmbeddedSource} \cup RemoteSources, SmallTrees, {0}, "any")

SpecRace == InitRace /\ [][NextRace]_vars

\* ======================= the revision of src/unnamed/part_000, lines 635-1353
\* The revision with the stale-lock check and the signal and exit handlers.
\* Its option checks, clone attempt, classification loop and ordering are
\* those of src/scaffold.mjs; its lock protocol, handlers, cloneMode, sparse
\* pattern and cleanup are its own.  The lock file's content is the pid
\* written to it, -1 between its creation and the write of the pid.

\* The processes that have ended.
Ended(p) == pc[p] \in {"off", "exit", "killed"}

\* isProcessAlive(pid): null (0) is not alive; process.kill(pid, 0) fails
\* with ESRCH for a process that is gone.
isProcessAlive(pid) == pid \in Procs /\ ~Ended(pid)

\* createLock(), fs.openSync(lockPath, 'wx'): the first call and the one
\* after a stale lock was removed.  Before the handlers are registered
\* process.exit runs no cleanup.
LockCreate(p) ==
    /\ pc[p] \in {"lock", "relock"}
    /\ IF lockFile = 0
       THEN /\ lockFile' = -1
            /\ lockInode' = p
            /\ pc' = [pc EXCEPT ![p] = "write"]
            /\ UNCHANGED exitCode
       ELSE /\ IF pc[p] = "lock"
               THEN pc' = [pc EXCEPT ![p] = "readpid"] /\ UNCHANGED exitCode
               ELSE Exit(p, EXIT_USAGE_ERROR)
            /\ UNCHANGED <<lockFile, lockInode>>
    /\ UNCHANGED <<inputVars, lockAcquired, detectVars, sourceVars, loopVars>>
    /\ UNCHANGED <<lockPid, cleaning, handlers, signalled, cloneMode>>

\* createLock(), fs.writeFileSync(fd, String(process.pid)) and lockAcquired =
\* true: the pid goes to the file the descriptor was opened on, which is the
\* lock file of the target only while no other run has removed it.
LockWrite(p) ==
    /\ pc[p] = "write"
    /\ lockFile' = IF lockInode = p THEN p ELSE lockFile
    /\ lockAcquired' = [lockAcquired EXCEPT ![p] = TRUE]
    /\ pc' = [pc EXCEPT ![p] = "handlers"]
    /\ UNCHANGED <<inputVars, rev2Vars, detectVars, sourceVars, loopVars, exitCode>>

\* readLockPid(lockPath): null when the file is gone or holds no number.
LockReadPid(p) ==
    /\ pc[p] = "readpid"
    /\ lockPid' = [lockPid EXCEPT ![p] = IF lockFile \in {0, -1} THEN 0 ELSE lockFile]
    /\ pc' = [pc EXCEPT ![p] = "probe"]
    /\ UNCHANGED <<inputVars, lockVars, detectVars, sourceVars, loopVars, exitCode>>
    /\ UNCHANGED <<lockInode, cleaning, handlers, signalled, cloneMode>>

\* if (isProcessAlive(pid)) ... process.exit(EXIT.USAGE_ERROR)
LockProbe(p) ==
    /\ pc[p] = "probe"
    /\ IF isProcessAlive(lockPid[p])
       THEN Exit(p, EXIT_USAGE_ERROR)
       ELSE pc' = [pc EXCEPT ![p] = "rmlock"] /\ UNCHANGED exitCode
    /\ UNCHANGED <<inputVars, rev2Vars, lockVars, detectVars, sourceVars, loopVars>>

\* fs.rmSync(lockPath, {force: true}) of the lock taken for stale.
LockReclaim(p) ==
    /\ pc[p] = "rmlock"
    /\ lockFile' = 0
    /\ lockInode' = 0
    /\ pc' = [pc EXCEPT ![p] = "relock"]
    /\ UNCHANGED <<inputVars, lockAcquired, detectVars, sourceVars, loopVars, exitCode>>
    /\ UNCHANGED <<lockPid, cleaning, handlers, signalled, cloneMode>>

\* let cleaning = false and the process.once registrations.
RegisterHandlers(p) ==
    /\ pc[p] = "handlers"
    /\ cleaning' = [cleaning EXCEPT ![p] = FALSE]
    /\ handlers' = [handlers EXCEPT ![p] = TRUE]
    /\ pc' = [pc EXCEPT ![p] = "detect"]
    /\ UNCHANGED <<inputVars, lockVars, detectVars, sourceVars, loopVars, exitCode>>
    /\ UNCHANGED <<lockInode, lockPid, signalled, cloneMode>>

\* cleanup(), called when tempRoot holds tr: a second call returns at once.
\* The flag is set before tempRoot is read; while tempRoot is in its
\* temporal dead zone the read throws and nothing is removed.
cleanup(p, tr) ==
    IF cleaning[p]
    THEN UNCHANGED <<cleaning, tmpDirs, lockFile, lockInode>>
    ELSE /\ cleaning' = [cleaning EXCEPT ![p] = TRUE]
         /\ IF tr = "tdz"
            THEN UNCHANGED <<tmpDirs, lockFile, lockInode>>
            ELSE /\ tmpDirs' = tmpDirs \ {<<p, tr>>}
                 /\ lockFile' = IF lockAcquired[p] THEN 0 ELSE lockFile
                 /\ lockInode' = IF lockAcquired[p] THEN 0 ELSE lockInode

\* cleanupAndExit(code) of the revision.  The ReferenceError of a tempRoot in
\* its dead zone is uncaught: node exits with status 1.  The 'exit' handler
\* then calls cleanup() again, which returns at once as cleaning is set.
cleanupAndExit2(p, code, tr) ==
    /\ cleanup(p, tr)
    /\ Exit(p, IF ~cleaning[p] /\ tr = "tdz" THEN 1 ELSE code)

\* A termination signal (SIGINT, SIGHUP, SIGTERM) reaches the process.  With
\* no handler registered the process is killed where it stands.  With the
\* handlers registered the signal is queued for the event loop, which the
\* script, synchronous from its first statement to its process.exit, never
\* returns to: the run goes on.
Signal(p) ==
    /\ ~Ended(p)
    /\ ~signalled[p]
    /\ signalled' = [signalled EXCEPT ![p] = TRUE]
    /\ IF handlers[p]
       THEN UNCHANGED exitVars
       ELSE /\ pc' = [pc EXCEPT ![p] = "killed"]
            /\ exitCode' = [exitCode EXCEPT ![p] = 143]
    /\ UNCHANGED <<inputVars, lockVars, detectVars, sourceVars, loopVars>>
    /\ UNCHANGED <<lockInode, lockPid, cleaning, handlers, cloneMode>>

NuxtDetection2(p) ==
    /\ pc[p] = "detect"
    /\ IF pkgJson.state # "ok" \/ ~nuxtConfig
       THEN /\ cleanupAndExit2(p, EXIT_USAGE_ERROR, tempRoot[p])
            /\ UNCHANGED detectVars
       ELSE /\ detectedContent' = [detectedContent EXCEPT ![p] = Detected("@nuxt/content")]
            /\ detectedTailwind' = [detectedTailwind EXCEPT ![p] = Detected("tailwindcss")]
            /\ effectiveContent' = [effectiveContent EXCEPT ![p] =
                   EffectiveOf(forceAll, overrideWithContent, overrideWithoutContent,
                               Detected("@nuxt/content"))]
            /\ effectiveTailwind' = [effectiveTailwind EXCEPT ![p] =
                   EffectiveOf(forceAll, overrideWithTailwind, overrideWithoutTailwind,
                               Detected("tailwindcss"))]
            /\ pc' = [pc EXCEPT ![p] = "source"]
            /\ UNCHANGED <<exitCode, tmpDirs, lockFile, lockInode, cleaning>>
    /\ UNCHANGED <<inputVars, lockAcquired, loopVars>>
    /\ UNCHANGED <<tempRoot, optimized, cloneDir, templateRoot, usedEmbedded, attempts>>
    /\ UNCHANGED <<lockPid, handlers, signalled, cloneMode>>

SourceDecision2(p) ==
    /\ pc[p] = "source"
    /\ optimized' = [optimized EXCEPT ![p] = USE_OPTIMIZED]
    /\ tempRoot' = [tempRoot EXCEPT ![p] = "null"]
    /\ IF embedded /\ repoUrl = DEFAULT_REPO_URL
       THEN /\ templateRoot' = [templateRoot EXCEPT ![p] =
                                   [kind |-> "embedded", files |-> repo.tpl]]
            /\ usedEmbedded' = [usedEmbedded EXCEPT ![p] = TRUE]
            /\ cloneMode' = [cloneMode EXCEPT ![p] = "embedded"]
            /\ pc' = [pc EXCEPT ![p] = "gather"]
            /\ UNCHANGED <<cloneDir, exitCode, tmpDirs, lockFile, lockInode, cleaning>>
       ELSE IF ~isRemote(repoUrl)
       THEN IF localKind = "missing"
            THEN /\ cleanupAndExit2(p, EXIT_USAGE_ERROR, "null")
                 /\ templateRoot' = [templateRoot EXCEPT ![p] = [kind |-> "null", files |-> {}]]
                 /\ UNCHANGED <<cloneDir, usedEmbedded, cloneMode>>
            ELSE /\ cloneDir' = [cloneDir EXCEPT ![p] = LocalTree]
                 /\ cloneMode' = [cloneMode EXCEPT ![p] = "full"]
                 /\ templateRoot' = [templateRoot EXCEPT ![p] = Narrow(LocalTree)]
                 /\ UNCHANGED usedEmbedded
                 /\ \E same \in SelfTarget :
                        IF same
                        THEN cleanupAndExit2(p, EXIT_USAGE_ERROR, "null")
                        ELSE /\ pc' = [pc EXCEPT ![p] = "gather"]
                             /\ UNCHANGED <<exitCode, tmpDirs, lockFile, lockInode, cleaning>>
       ELSE IF ~gitOk
            THEN /\ cleanupAndExit2(p, EXIT_USAGE_ERROR, "null")
                 /\ templateRoot' = [templateRoot EXCEPT ![p] = [kind |-> "null", files |-> {}]]
                 /\ UNCHANGED <<cloneDir, usedEmbedded, cloneMode>>
            ELSE /\ pc' = [pc EXCEPT ![p] = "clone"]
                 /\ templateRoot' = [templateRoot EXCEPT ![p] = [kind |-> "null", files |-> {}]]
                 /\ UNCHANGED <<cloneDir, usedEmbedded, cloneMode>>
                 /\ UNCHANGED <<exitCode, tmpDirs, lockFile, lockInode, cleaning>>
    /\ UNCHANGED <<inputVars, lockAcquired, detectVars, loopVars, attempts>>
    /\ UNCHANGED <<lockPid, handlers, signalled>>

\* The working trees a clone of the revision may leave: the sparse clone
\* checks out the top-level files, and the pattern templates/** that follows
\* replaces them by the files under templates/; when that command fails the
\* top-level files stay.
CloneTrees2(opt) ==
    IF opt
    THEN {[root |-> {}, tpl |-> repo.tpl], [root |-> repo.root, tpl |-> {}]}
    ELSE {repo}

GitClone2(p) ==
    /\ pc[p] = "git"
    /\ \/ /\ cleanupAndExit2(p, EXIT_USAGE_ERROR, tempRoot[p])
          /\ UNCHANGED <<optimized, cloneDir, templateRoot, cloneMode>>
       \/ \E tree \in CloneTrees2(optimized[p]) :
            IF optimized[p] /\ IsEmptyTree(tree)
            THEN /\ tmpDirs' = tmpDirs \ {<<p, tempRoot[p]>>}
                 /\ optimized' = [optimized EXCEPT ![p] = FALSE]
                 /\ cloneDir' = [cloneDir EXCEPT ![p] = tree]
                 /\ cloneMode' = [cloneMode EXCEPT ![p] = "optimized"]
                 /\ pc' = [pc EXCEPT ![p] = "clone"]
                 /\ UNCHANGED <<templateRoot, exitCode, lockFile, lockInode, cleaning>>
            ELSE /\ cloneDir' = [cloneDir EXCEPT ![p] = tree]
                 /\ cloneMode' = [cloneMode EXCEPT ![p] =
                                     IF optimized[p] THEN "optimized" ELSE "full"]
                 /\ templateRoot' = [templateRoot EXCEPT ![p] = Narrow(tree)]
                 /\ pc' = [pc EXCEPT ![p] = "gather"]
                 /\ UNCHANGED <<optimized, exitCode, tmpDirs, lockFile, lockInode, cleaning>>
    /\ UNCHANGED <<inputVars, lockAcquired, detectVars, loopVars>>
    /\ UNCHANGED <<tempRoot, usedEmbedded, attempts>>
    /\ UNCHANGED <<lockPid, handlers, signalled>>

GatherFiles2(p) ==
    /\ pc[p] = "gather"
    /\ \E order \in walk(templateRoot[p].files) :
         /\ files' = [files EXCEPT ![p] = order]
         /\ IF Len(order) = 0
            THEN /\ cleanupAndExit2(p, EXIT_TEMPLATE_EMPTY, tempRoot[p])
                 /\ UNCHANGED idx
            ELSE /\ idx' = [idx EXCEPT ![p] = 1]
                 /\ pc' = [pc EXCEPT ![p] = "loop"]
                 /\ UNCHANGED <<exitCode, tmpDirs, lockFile, lockInode, cleaning>>
    /\ UNCHANGED <<inputVars, lockAcquired, detectVars>>
    /\ UNCHANGED <<tempRoot, optimized, cloneDir, templateRoot, usedEmbedded, attempts>>
    /\ UNCHANGED <<actions, added, skipped, excluded, errors, targetFiles, written>>
    /\ UNCHANGED <<lockPid, handlers, signalled, cloneMode>>

Output2(p) ==
    /\ pc[p] = "output"
    /\ IF listOnly /\ ~jsonOutput
       THEN cleanupAndExit2(p, EXIT_OK, tempRoot[p])
       ELSE cleanupAndExit2(p, IF Len(errors[p]) > 0 THEN EXIT_FILE_ERRORS ELSE EXIT_OK,
                            tempRoot[p])
    /\ UNCHANGED <<inputVars, lockAcquired, detectVars, loopVars>>
    /\ UNCHANGED <<tempRoot, optimized, cloneDir, templateRoot, usedEmbedded, attempts>>
    /\ UNCHANGED <<lockPid, handlers, signalled, cloneMode>>

\* One step of the script of run p.
Run2(p) ==
    \/ Options(p)
    \/ LockCreate(p)
    \/ LockWrite(p)
    \/ LockReadPid(p)
    \/ LockProbe(p)
    \/ LockReclaim(p)
    \/ RegisterHandlers(p)
    \/ NuxtDetection2(p)
    \/ SourceDecision2(p)
    \/ AttemptClone(p)
    \/ GitClone2(p)
    \/ GatherFiles2(p)
    \/ ClassifyFile(p)
    \/ SortResults(p)
    \/ Output2(p)

Next2 == \E p \in Procs : Run2(p) \/ Signal(p)

\* One run of the revision, on a target whose lock file is absent or stale,
\* with a termination signal at any moment.  The operating system lets a
\* process that can take a step take it.
InitSignal ==
    InitOf({1}, {{}, {"dry-run"}}, {<<0, "dir">>}, {GoodPkg} \cup BadManifests, {TRUE},
           {EmbeddedSource} \cup RemoteSources,
           {t \in SmallTrees : t.tpl \subseteq TwoGates.tpl}, {0} \cup StalePids, "empty")

SpecSignal == InitSignal /\ [][Next2]_vars /\ \A p \in Procs : WF_vars(Run2(p))

\* Two runs of the revision started on the same target, in every
\* interleaving: the lock file is absent or left behind by a process that is
\* gone.
InitLock2 ==
    InitOf(Procs, {{}}, {<<0, "dir">>}, {GoodPkg}, {TRUE},
           {EmbeddedSource} \cup {s \in RemoteSources : ~s.fast},
           {[root |-> {}, tpl |-> { <<"app.vue">> }]}, {0} \cup StalePids, "empty")

SpecLock2 == InitLock2 /\ [][Next2]_vars

\* ================================================================== claims
PostDetect == {"source", "clone", "git", "gather", "loop", "sort", "output"}
PastLock == {"detect"} \cup PostDetect
PostResolve == {"gather", "loop", "sort", "output"}

\* The classification loop of run p has passed over every file.
LoopDone(p) == files[p] # <<>> /\ idx[p] = Len(files[p]) + 1

\* Some exclusion rule applies to the file in run p.
Excludable(p, rel) ==
    \/ Basename(rel) \in ALWAYS_EXCLUDE
    \/ ~includeDocs /\ Basename(rel) \in DOC_EXCLUDE
    \/ cleanInfo /\ Basename(rel) = <<"INFO.md">>
    \/ isContentFile(rel) /\ ~effectiveContent[p]
    \/ isTailwindFile(rel) /\ ~effectiveTailwind[p]

\* C1: a run never copies to a path that was present in the target before
\* the run started, whatever the flags.
C1_NonOverwrite ==
    \A p \in Procs : \A rel \in written[p] : ~Exists(preTarget, rel)

\* C1 witness: a finished writing run with --all that copied some file and
\* skipped a template file the target already had.
C1_Witness ==
    \E p \in Procs :
        /\ pc[p] = "exit" /\ LoopDone(p)
        /\ forceAll /\ ~dryRun /\ ~listOnly
        /\ written[p] # {}
        /\ \E a \in Range(actions[p]) :
              a.action = "skip-exists" /\ Exists(preTarget, a.rel)

\* C2 as stated: the action of a template file whose path the target already
\* had is always skip-exists.
C2_AlwaysSkipExists ==
    \A p \in Procs : \A a \in Range(actions[p]) :
        Exists(preTarget, a.rel) => a.action = "skip-exists"

\* C2 amended: the action of a template file whose path the target already
\* had is never add; it is skip-exists exactly when no exclusion rule applies
\* to the file, and the exclusion else.
C2_NeverAdd ==
    \A p \in Procs : \A a \in Range(actions[p]) :
        Exists(preTarget, a.rel) =>
            /\ a.action # "add"
            /\ a.action = "skip-exists" <=> ~Excludable(p, a.rel)

\* C2 witness: the target already has content/index.md and --all is given:
\* the file is skip-exists.
C2_Witness ==
    \E p \in Procs : \E a \in Range(actions[p]) :
        /\ forceAll
        /\ a.rel = <<"content", SL, "index.md">>
        /\ <<"content", SL, "index.md">> \in preTarget
        /\ a.action = "skip-exists"

\* C3 as stated: after the loop there is one action per enumerated file, no
\* two actions have the same rel, and the rels are the normalized paths of
\* the enumerated files.
C3_OneActionPerPath ==
    \A p \in Procs :
        LoopDone(p) =>
            /\ Len(actions[p]) = Len(files[p])
            /\ \A i, j \in 1..Len(actions[p]) :
                  i # j => actions[p][i].rel # actions[p][j].rel
            /\ {a.rel : a \in Range(actions[p])} = {Normalize(f) : f \in Range(files[p])}

\* C4: the action of every file is that of the first rule that applies to
\* it, in the order always-exclude, doc-exclude, info-exclude, content gate,
\* tailwind gate, skip-exists, add.
C4_FirstRuleWins ==
    \A p \in Procs : \A a \in Range(actions[p]) :
        LET b == Basename(a.rel)
            always == b \in ALWAYS_EXCLUDE
            docs == ~includeDocs /\ b \in DOC_EXCLUDE
            info == cleanInfo /\ b = <<"INFO.md">>
            content == isContentFile(a.rel) /\ ~effectiveContent[p]
            tailwind == isTailwindFile(a.rel) /\ ~effectiveTailwind[p]
        IN  /\ always => a.action = "exclude-always"
            /\ ~always /\ docs => a.action = "exclude-docs"
            /\ ~always /\ ~docs /\ info => a.action = "exclude-info"
            /\ ~always /\ ~docs /\ ~info /\ content =>
                   a.action = "exclude-feature" /\ a.reason = "content-off"
            /\ ~always /\ ~docs /\ ~info /\ ~content /\ tailwind =>
                   a.action = "exclude-feature" /\ a.reason = "tailwind-off"
            /\ ~always /\ ~docs /\ ~info /\ ~content /\ ~tailwind =>
                   /\ a.action \in {"skip-exists", "add"}
                   /\ a.action = "skip-exists" => Exists(targetFiles, a.rel)
                   /\ a.action = "add" => ~Exists(preTarget, a.rel)

\* C4 witness: content/package.json with the content feature off is
\* exclude-always.
C4_Witness ==
    \E p \in Procs : \E a \in Range(actions[p]) :
        /\ a.rel = <<"content", SL, "package.json">>
        /\ ~effectiveContent[p]
        /\ a.action = "exclude-always"

\* The value the precedence --all > --with-X > --without-X > detected gives.
TierValue(all, with, without, detected, effective) ==
    /\ all => effective
    /\ ~all /\ with => effective
    /\ ~all /\ ~with /\ without => ~effective
    /\ ~all /\ ~with /\ ~without => (effective <=> detected)

\* C5: each effective feature value is true under --all, else true under
\* --with-X, else false under --without-X, else the detected value.
C5_Precedence ==
    \A p \in Procs :
        pc[p] \in PostDetect =>
            /\ TierValue(forceAll, overrideWithContent, overrideWithoutContent,
                         detectedContent[p], effectiveContent[p])
            /\ TierValue(forceAll, overrideWithTailwind, overrideWithoutTailwind,
                         detectedTailwind[p], effectiveTailwind[p])

\* C5 witness: content is detected and --without-content turns it off while
\* tailwind, not detected, is turned on by --with-tailwind.
C5_Witness ==
    \E p \in Procs :
        /\ pc[p] \in PostDetect
        /\ ~forceAll
        /\ detectedContent[p] /\ overrideWithoutContent /\ ~effectiveContent[p]
        /\ ~detectedTailwind[p] /\ overrideWithTailwind /\ effectiveTailwind[p]

\* The command line or the target path is a configuration error.
ConfigError ==
    \/ positional > 1
    \/ targetKind # "dir"
    \/ overrideWithContent /\ overrideWithoutContent
    \/ overrideWithTailwind /\ overrideWithoutTailwind

\* Run p has changed nothing on the filesystem: no lock file, no temporary
\* directory, no copied file.
NoMutation(p) ==
    /\ ~lockAcquired[p] /\ lockFile # p
    /\ attempts[p] = <<>> /\ \A d \in tmpDirs : d[1] # p
    /\ written[p] = {} /\ targetFiles = preTarget

\* C6 as stated: under a configuration error the run ends with exit status 1
\* and has changed nothing on the filesystem.
C6_ConfigErrorExitsOne ==
    \A p \in Procs :
        ConfigError =>
            /\ pc[p] \in {"off", "start", "exit"}
            /\ NoMutation(p)
            /\ pc[p] = "exit" => exitCode[p] = EXIT_USAGE_ERROR

\* C6 amended: under a configuration error the run ends in its option checks
\* and has changed nothing on the filesystem; its exit status is 1, unless
\* at most one positional path and --help or --version are given: then the
\* run prints the help or the version and exits 0 before the other checks.
C6_ConfigErrorNoMutation ==
    \A p \in Procs :
        ConfigError =>
            /\ pc[p] \in {"off", "start", "exit"}
            /\ NoMutation(p)
            /\ pc[p] = "exit" =>
                  exitCode[p] = IF positional <= 1 /\ (wantHelp \/ wantVersion)
                                THEN EXIT_OK ELSE EXIT_USAGE_ERROR

\* C6 witness: --with-content with --without-content on an existing target
\* directory has ended the run with status 1 and no lock file.
C6_Witness ==
    \E p \in Procs :
        /\ overrideWithContent /\ overrideWithoutContent
        /\ positional <= 1 /\ targetKind = "dir" /\ ~wantHelp /\ ~wantVersion
        /\ pc[p] = "exit" /\ exitCode[p] = EXIT_USAGE_ERROR
        /\ lockFile = 0 /\ NoMutation(p)

\* C7 as stated: --all together with --without-content or --without-tailwind
\* is rejected: the run does not go past its option checks.
C7_AllWithoutRejected ==
    \A p \in Procs :
        forceAll /\ (overrideWithoutContent \/ overrideWithoutTailwind) =>
            pc[p] \in {"off", "start", "exit"} /\ ~lockAcquired[p]

\* C7 amended: --all together with --without-content or --without-tailwind
\* is accepted and --all wins: once the features are decided both are on,
\* and no file is excluded by a feature gate.
C7_AllOutranksWithout ==
    \A p \in Procs :
        forceAll /\ (overrideWithoutContent \/ overrideWithoutTailwind)
                 /\ (pc[p] \in PostDetect \/ LoopDone(p)) =>
            /\ effectiveContent[p] /\ effectiveTailwind[p]
            /\ \A a \in Range(actions[p]) : a.action # "exclude-feature"

\* C7 witness: under --all --without-content a run has added the content
\* file of the template.
C7_Witness ==
    \E p \in Procs :
        /\ forceAll /\ overrideWithoutContent
        /\ LoopDone(p)
        /\ \E a \in Range(actions[p]) :
              a.rel = <<"content", SL, "index.md">> /\ a.action = "add"

\* C8: when the optimized clone is empty its temporary directory is removed
\* and one full clone follows, whose tree is the one narrowed to the
\* template root and walked; an optimized clone is never used empty and no
\* run makes more than these two attempts.
C8_EmptyOptimizedFallsBack ==
    \A p \in Procs :
        /\ Len(attempts[p]) <= 2
        /\ attempts[p] # <<>> => attempts[p][1] = (IF fast THEN "optimized" ELSE "full")
        /\ pc[p] = "clone" /\ attempts[p] = <<"optimized">> =>
              /\ cloneDir[p] = NoTree
              /\ ~optimized[p]
              /\ <<p, "tmp1">> \notin tmpDirs
        /\ Len(attempts[p]) = 2 =>
              /\ attempts[p] = <<"optimized", "full">>
              /\ <<p, "tmp1">> \notin tmpDirs
        /\ Len(attempts[p]) = 2 /\ pc[p] \in PostResolve =>
              /\ cloneDir[p] = repo
              /\ templateRoot[p] = Narrow(repo)
        /\ attempts[p] = <<"optimized">> /\ pc[p] \in PostResolve =>
              cloneDir[p] # NoTree
        /\ pc[p] \in {"loop", "sort", "output"} /\ attempts[p] # <<>> =>
              Range(files[p]) \subseteq templateRoot[p].files

\* C8 witness: after an empty optimized clone the files of the full clone
\* are being classified.
C8_Witness ==
    \E p \in Procs :
        /\ fast
        /\ attempts[p] = <<"optimized", "full">>
        /\ pc[p] = "loop"
        /\ Range(files[p]) = Narrow(repo).files

\* C9 as stated: with the optimized mode requested the run resolves the
\* template root a full clone resolves, so that it classifies the same files
\* and reports an empty template only when the full clone is empty.
C9_OptimizedIsInvisible ==
    \A p \in Procs :
        /\ fast /\ attempts[p] # <<>> /\ pc[p] \in PostResolve =>
              templateRoot[p] = Narrow(repo)
        /\ fast /\ attempts[p] # <<>> /\ pc[p] = "exit"
                /\ exitCode[p] = EXIT_TEMPLATE_EMPTY =>
              Narrow(repo).files = {}

\* Run p is past the lock acquisition and has not ended.
InRun(p) == pc[p] \in PastLock

\* C10: a run that finds the lock file of another run ends with status 1 and
\* leaves the lock file as it is, and no two runs are past the lock
\* acquisition at once.
C10_LockConflict ==
    [][ /\ \A p \in Procs :
              pc[p] = "lock" /\ lockFile # 0 /\ pc'[p] # "lock" =>
                  /\ pc'[p] = "exit" /\ exitCode'[p] = EXIT_USAGE_ERROR
                  /\ lockFile' = lockFile
                  /\ ~lockAcquired'[p]
        /\ \A p, q \in Procs : p # q => ~(InRun(p)' /\ InRun(q)')
      ]_vars

\* C10 witness: one run has ended with status 1 without the lock while the
\* other run, alive, holds the lock file.
C10_Witness ==
    \E p, q \in Procs :
        /\ p # q
        /\ pc[p] = "exit" /\ exitCode[p] = EXIT_USAGE_ERROR /\ ~lockAcquired[p]
        /\ InRun(q) /\ lockAcquired[q] /\ lockFile = q

\* C11 as stated: a run that finds a lock file whose owner is gone takes the
\* lock over and goes on: no run has ended without the lock while the lock
\* file still names a process that is gone.
C11_StaleLockReclaimed ==
    \A p \in Procs :
        lockFile \in StalePids => pc[p] \in {"off", "start", "lock"}

\* C12 as stated: a run that acquired the lock and ended with an error has
\* removed its lock file and its temporary clone directory.
C12_ErrorPathsCleanUp ==
    \A p \in Procs :
        pc[p] = "exit" /\ lockAcquired[p] /\ exitCode[p] # EXIT_OK =>
            /\ lockFile # p
            /\ \A d \in tmpDirs : d[1] # p

\* Run p has ended with its lock file removed from the target and its
\* temporary clone directory deleted.
EndedClean(p) ==
    /\ pc[p] \in {"exit", "killed"}
    /\ lockFile # p
    /\ \A d \in tmpDirs : d[1] # p

\* C13 as stated: in the revision with the signal handlers, a termination
\* signal delivered to a run that has acquired the lock leads to the end of
\* the process with the lock file removed and the temporary clone directory
\* deleted.
C13_SignalCleansUp ==
    \A p \in Procs : (signalled[p] /\ lockAcquired[p]) ~> EndedClean(p)

\* The exit status the outcome of run p calls for, by the section the run
\* ends in: help and version 0 and the other option checks 1; the lock, the
\* target checks and the source resolution 1; the file gathering 2; the
\* output 3 with a copy error recorded and 0 without.
StatusOf(p) ==
    CASE pc[p] = "start" ->
            IF positional <= 1 /\ (wantHelp \/ wantVersion) THEN 0 ELSE 1
      [] pc[p] \in {"lock", "detect", "source", "clone", "git"} -> 1
      [] pc[p] = "gather" -> 2
      [] OTHER -> IF errors[p] = <<>> THEN 0 ELSE 3

\* C14: a run ends with the status of its outcome: 0 for success, help and
\* version, 1 for usage, configuration, lock and source errors, 2 exactly
\* when the resolved template root yields no file, 3 exactly when the copy
\* pass was completed with an error recorded.
C14_ExitStatus ==
    [][ \A p \in Procs :
          /\ pc[p] # "exit" /\ pc'[p] = "exit" =>
                /\ exitCode'[p] = StatusOf(p)
                /\ exitCode'[p] = EXIT_TEMPLATE_EMPTY <=>
                      pc[p] = "gather" /\ walk(templateRoot[p].files) = {<<>>}
                /\ exitCode'[p] = EXIT_FILE_ERRORS <=>
                      pc[p] = "output" /\ LoopDone(p) /\ errors[p] # <<>>
                /\ pc[p] \in {"loop", "sort"} => FALSE
          /\ pc[p] = "gather" /\ walk(templateRoot[p].files) = {<<>>} => pc'[p] # "loop"
      ]_vars

\* C14 witness: a run has ended with status 3 after a pass that copied one
\* file and failed to copy another.
C14_Witness ==
    \E p \in Procs :
        /\ pc[p] = "exit" /\ exitCode[p] = EXIT_FILE_ERRORS
        /\ LoopDone(p) /\ errors[p] # <<>> /\ added[p] # <<>>

\* C15: a copy that fails is recorded in errors with the file's path and the
\* message, and the loop goes on: the step that records the error moves to
\* the next file, no run leaves the loop before its last file, and after the
\* loop every file has its action, the files whose action is add being those
\* copied and those recorded in errors.
C15_CopyErrorGoesOn ==
    [][ \A p \in Procs :
          /\ Len(errors'[p]) > Len(errors[p]) =>
                /\ pc[p] = "loop" /\ ~dryRun /\ ~listOnly
                /\ errors'[p] = Append(errors[p],
                       [file |-> Normalize(files[p][idx[p]]), error |-> "copy failed"])
                /\ actions'[p][Len(actions'[p])] =
                       [rel |-> Normalize(files[p][idx[p]]), action |-> "add",
                        reason |-> "none"]
                /\ idx'[p] = idx[p] + 1
                /\ pc'[p] = IF idx[p] < Len(files[p]) THEN "loop" ELSE "sort"
          /\ pc[p] = "loop" /\ pc'[p] # "loop" =>
                /\ pc'[p] = "sort"
                /\ idx'[p] = Len(files[p]) + 1
                /\ Len(actions'[p]) = Len(files[p])
                /\ Cardinality({i \in 1..Len(actions'[p]) : actions'[p][i].action = "add"})
                      = Len(added'[p]) + Len(errors'[p])
      ]_vars

\* C15 witness: the copy of the first file failed and the second file, which
\* came after it, was copied.
C15_Witness ==
    \E p \in Procs :
        /\ LoopDone(p) /\ Len(files[p]) = 2
        /\ errors[p] # <<>> /\ errors[p][1].file = Normalize(files[p][1])
        /\ Normalize(files[p][2]) \in written[p]

\* C16 as stated: under --dry-run or --list the target directory holds at
\* every point of the run, and at its end, the files it held before the run:
\* no template file is copied and no lock file is there.
C16_DryRunNoChange ==
    dryRun \/ listOnly =>
        /\ targetFiles = preTarget
        /\ \A p \in Procs : written[p] = {}
        /\ lockFile \notin Procs

\* The action run p gave to each file with the relative path rel is a.
AllActions(p, rel, a) ==
    /\ \E x \in Range(actions[p]) : x.rel = rel
    /\ \A x \in Range(actions[p]) : x.rel = rel => x.action = a

Resolving(p) == pc[p] \notin {"off", "start", "lock", "detect", "source"} /\ ~usedEmbedded[p]

\* C18 as stated: a local source that is missing or is not a directory ends
\* the run with status 1 in the source resolution, before any file is
\* gathered or classified.
C18_LocalSourceIsDirectory ==
    \A p \in Procs :
        Resolving(p) /\ ~isRemote(repoUrl) /\ localKind # "dir" =>
            /\ pc[p] = "exit" /\ exitCode[p] = EXIT_USAGE_ERROR
            /\ files[p] = <<>> /\ actions[p] = <<>>

\* The leading tokens of the two remote forms: scheme:// and user@host:.
SchemeForm == {"http://", "https://", "ssh://"}
UserHostForm == {"git@", "deploy@"}
RemoteForm(url) == url[1] \in SchemeForm \cup UserHostForm

\* C19 as stated: the source decision sends a source of the form scheme://
\* or user@host: to the clone (or fails for want of git), and reads every
\* other source as a local path, never cloning it.
C19_RemoteByForm ==
    [][ \A p \in Procs :
          pc[p] = "source" /\ pc'[p] # "source" /\ ~usedEmbedded'[p] =>
              IF RemoteForm(repoUrl)
              THEN IF gitOk THEN pc'[p] = "clone"
                   ELSE pc'[p] = "exit" /\ exitCode'[p] = EXIT_USAGE_ERROR
              ELSE /\ pc'[p] \in {"gather", "exit"}
                   /\ localKind = "missing" => pc'[p] = "exit"
      ]_vars

\* The entry the sorted action list holds for the m-th of the template files
\* with the relative path rel, by the template root, the target before the
\* run and the flags alone: each file gets the action of its rule, and of
\* several files with one relative path a writing run adds the first and
\* finds the others present.
EntryOf(p, rel, m) ==
    LET rule == RuleOf(rel, includeDocs, cleanInfo, effectiveContent[p],
                       effectiveTailwind[p], Exists(preTarget, rel))
    IN  IF rule = "add" /\ m > 1 /\ ~dryRun /\ ~listOnly
        THEN ActionOf(rel, "exists")
        ELSE ActionOf(rel, rule)

\* The sorted action list of run p is the one list the template root, the
\* target and the flags determine.
Determined(p) ==
    LET raws == {f \in templateRoot[p].files : ~Skipped(f)}
        n == Len(actions[p])
    IN  /\ n = Cardinality(raws)
        /\ \A i, j \in 1..n :
              i < j => Rank(LocaleOrder, actions[p][i].rel)
                          <= Rank(LocaleOrder, actions[p][j].rel)
        /\ \A i \in 1..n :
              /\ actions[p][i].rel \in {Normalize(f) : f \in raws}
              /\ actions[p][i] =
                    EntryOf(p, actions[p][i].rel,
                            Cardinality({j \in 1..i : actions[p][j].rel = actions[p][i].rel}))
        /\ \A f \in raws :
              Cardinality({i \in 1..n : actions[p][i].rel = Normalize(f)})
                 = Cardinality({g \in raws : Normalize(g) = Normalize(f)})

Provenance(p) ==
    IF usedEmbedded[p] THEN "embedded"
    ELSE IF attempts[p] = <<>> THEN "local"
    ELSE IF attempts[p][Len(attempts[p])] = "optimized" THEN "cloned-optimized"
    ELSE "cloned-full"

\* The provenance a reported mode names.
NamedBy(mode) ==
    CASE mode = "embedded" -> "embedded"
      [] mode = "local" -> "local"
      [] mode \in {"optimized", "optimized?"} -> "cloned-optimized"
      [] OTHER -> "cloned-full"

\* C21 as stated: the mode in the JSON document and in the --list output
\* names the provenance of the template root the run used.
C21_ModeIsProvenance ==
    \A p \in Procs :
        pc[p] = "output" =>
            /\ jsonOutput => NamedBy(JsonMode(p)) = Provenance(p)
            /\ listOnly /\ ~jsonOutput => NamedBy(ListMode(p)) = Provenance(p)

\* The manifest of the target has the key in dependencies or devDependencies.
KeyPresent(k) ==
    pkgJson.dependencies[k] # "absent" \/ pkgJson.devDependencies[k] # "absent"

\* C22 as stated: a feature is detected exactly when its signature key is
\* present in the manifest, whatever value is stored under it.
C22_DetectedIffKeyPresent ==
    \A p \in Procs :
        pc[p] \in PostDetect =>
            /\ detectedContent[p] = KeyPresent("@nuxt/content")
            /\ detectedTailwind[p] = KeyPresent("tailwindcss")

\* The reason code of each exclusion rule.
ReasonCode(rule) ==
    CASE rule = "always" -> "utility"
      [] rule = "docs" -> "docs"
      [] rule = "info" -> "info-clean"
      [] rule = "content" -> "content-disabled"
      [] rule = "tailwind" -> "tailwind-disabled"

\* The rule of the chain that matches the file in run p.
MatchedRule(p, rel) ==
    RuleOf(rel, includeDocs, cleanInfo, effectiveContent[p], effectiveTailwind[p], FALSE)

\* The actions of run p as pairs of path and reason, adds with reason "add".
ReasonsOf(p) ==
    { <<a.rel, IF a.action = "add" THEN "add" ELSE a.reason>> : a \in Range(actions[p]) }

\* C23 as stated: the Action of an excluded file carries the reason code of
\* the rule that matched it, and the template of four files gives
\* excluded(content-disabled), excluded(tailwind-disabled), excluded(utility),
\* excluded(docs) with zero adds when no flag is given.
C23_ActionReasonCodes ==
    \A p \in Procs :
        /\ \A a \in Range(actions[p]) :
              MatchedRule(p, a.rel) \in ExcludeRules =>
                  a.reason = ReasonCode(MatchedRule(p, a.rel))
        /\ pc[p] = "output" /\ repo = FourRules /\ longArgs = {} =>
              ReasonsOf(p) =
                  { << <<"content", SL, "index.md">>, "content-disabled" >>,
                    << <<"tailwind.config.ts">>, "tailwind-disabled" >>,
                    << <<"package.json">>, "utility" >>,
                    << <<"README.md">>, "docs" >> }

\* Run p of the revision is past lock acquisition with lockAcquired = true
\* and has not ended.
HoldsLock2(p) == lockAcquired[p] /\ pc[p] \in {"handlers"} \cup PastLock

\* C24 as stated: in every interleaving of the runs started on one target, at
\* most one run at a time is past lock acquisition with lockAcquired = true.
C24_OneLockHolder ==
    \A p, q \in Procs : HoldsLock2(p) /\ HoldsLock2(q) => p = q

\* An invocation of cleanup() in run p failed: the flag was set and the read
\* of tempRoot, still in its dead zone, threw.
CleanupThrew(p) == cleaning[p] /\ tempRoot[p] = "tdz"

\* C25 as stated: no invocation of cleanup() fails, and when the process has
\* exited the lock the run acquired is removed and its temporary clone
\* directory deleted.
C25_CleanupAlwaysCompletes ==
    \A p \in Procs :
        /\ ~CleanupThrew(p)
        /\ pc[p] = "exit" /\ lockAcquired[p] =>
              /\ lockFile # p
              /\ \A d \in tmpDirs : d[1] # p

\* C26 as stated: a copy never lands on a destination that exists at the
\* moment of the copy, so a file created by another process between the
\* existence test and the copy is not replaced.
C26_RaceNeverReplaces ==
    [][\A p \in Procs :
          pc[p] = "copy" /\ Len(added'[p]) > Len(added[p]) =>
              Normalize(files[p][idx[p]]) \notin targetFiles]_vars

\* The temporary directories of run p that exist.
TmpDirsOf(p) == {d \in tmpDirs : d[1] = p}

\* C27: a run never has two temporary directories at once, and when it has
\* ended, with whatever status, none of the directories its clone attempts
\* created exists.
C27_TempDirsDeleted ==
    \A p \in Procs :
        /\ Cardinality(TmpDirsOf(p)) <= 1
        /\ pc[p] = "exit" => TmpDirsOf(p) = {}

\* C27 witness: a run that discarded an empty optimized clone, cloned in
\* full, and has ended with both temporary directories gone.
C27_Witness ==
    \E p \in Procs :
        /\ pc[p] = "exit"
        /\ attempts[p] = <<"optimized", "full">>
        /\ tempRoot[p] = "tmp2"
        /\ TmpDirsOf(p) = {}

\* The paths keys are in ascending order of the given collation.
Ascending(keys, order) ==
    \A i, j \in 1..Len(keys) : i < j => Rank(order, keys[i]) <= Rank(order, keys[j])

\* The paths are sorted, by the locale collation or by code units.
SortedByPath(keys) == Ascending(keys, LocaleOrder) \/ Ascending(keys, CodeUnitOrder)

\* C28 as stated: when the results are handed to output every result list
\* (actions, added, skipped, excluded, errors) is sorted by path.
C28_AllListsSorted ==
    \A p \in Procs :
        pc[p] = "output" =>
            /\ SortedByPath(KeyRel(actions[p]))
            /\ SortedByPath(added[p])
            /\ SortedByPath(skipped[p])
            /\ SortedByPath(KeyFile(excluded[p]))
            /\ SortedByPath(KeyFile(errors[p]))

\* How many entries of a sequence have the given value.
CountOf(s, x) == Cardinality({i \in 1..Len(s) : s[i] = x})

\* The actions of run p for which the action name is in the set A.
ActionsIn(p, A) == {i \in 1..Len(actions[p]) : actions[p][i].action \in A}

ExcludeActions == {"exclude-always", "exclude-docs", "exclude-info", "exclude-feature"}

\* C29: after the classification loop each enumerated file has one entry in
\* exactly one of added, skipped, excluded, errors, so their lengths add up
\* to the number of files; the entries of added and errors are the files
\* whose action is add, those of skipped the skip-exists ones and those of
\* excluded the exclude-* ones.
C29_Buckets ==
    \A p \in Procs :
        LoopDone(p) =>
            /\ Len(added[p]) + Len(skipped[p]) + Len(excluded[p]) + Len(errors[p])
                  = Len(files[p])
            /\ Len(actions[p]) = Len(files[p])
            /\ \A rel \in {Normalize(f) : f \in Range(files[p])} :
                  /\ CountOf(added[p], rel) + CountOf(KeyFile(errors[p]), rel)
                        = Cardinality({i \in ActionsIn(p, {"add"}) : actions[p][i].rel = rel})
                  /\ CountOf(skipped[p], rel)
                        = Cardinality({i \in ActionsIn(p, {"skip-exists"}) :
                                          actions[p][i].rel = rel})
                  /\ CountOf(KeyFile(excluded[p]), rel)
                        = Cardinality({i \in ActionsIn(p, ExcludeActions) :
                                          actions[p][i].rel = rel})
                  /\ Cardinality({i \in 1..Len(actions[p]) : actions[p][i].rel = rel})
                        = Cardinality({i \in 1..Len(files[p]) : Normalize(files[p][i]) = rel})

\* C29 witness: a finished loop over two files with entries in two different
\* buckets, one of them errors.
C29_Witness ==
    \E p \in Procs :
        /\ LoopDone(p) /\ Len(files[p]) = 2
        /\ Len(errors[p]) = 1
        /\ Len(skipped[p]) + Len(excluded[p]) + Len(added[p]) = 1

\* The action list a pass over the files of run p gives when every file is
\* classified against the target as it was before the run: the list of a
\* run that copies nothing.
DryList(p) ==
    [i \in 1..Len(files[p]) |->
        ActionOf(Normalize(files[p][i]),
                 RuleOf(Normalize(files[p][i]), includeDocs, cleanInfo,
                        effectiveContent[p], effectiveTailwind[p],
                        Exists(preTarget, Normalize(files[p][i]))))]

\* C30 as stated: the action list a run hands to output is the list of the
\* run that copies nothing, whether the run is --dry-run, --list or writing:
\* the copies made earlier in the pass change no later classification.
C30_ModeIndependent ==
    \A p \in Procs :
        pc[p] = "output" =>
            actions[p] = SortBy(DryList(p), LocaleOrder, KeyRel(DryList(p)))
====
